---- MODULE Spec2Model ----
(***************************************************************************)
(* Model of src/server.py: a multi-threaded HTTP server.  One acceptor     *)
(* thread (run_server) hands accepted sockets to a WorkerPool with a       *)
(* bounded queue; each worker thread runs handle_connection on one socket  *)
(* at a time.                                                              *)
(*                                                                         *)
(* Text is modelled at two levels.  Header names, header values, methods   *)
(* and versions are TLA+ strings.  Paths are strings too, and every        *)
(* character-level operation of the code on a path (the `in` test,         *)
(* startswith, lstrip, realpath, splitext, lower) is computed on the       *)
(* path's characters, which Chars gives.                                   *)
(***************************************************************************)
EXTENDS Integers, Sequences, FiniteSets, TLC

\* ---------------------------------------------------------------- Config
\* src/server.py:28-38.  The pool size, the queue capacity and the
\* per-connection request limit are scaled down (the source has 10, 200, 100).
HOST == "127.0.0.1"
PORT == 8080
POOL_SIZE == 2
QUEUE_MAXSIZE == 2
MAX_REQUESTS_PER_CONN == 2
RETRY_AFTER == 5

\* The clients that connect: W + Q + 1 of them, numbered in the order accept()
\* returns them.
NumClients == POOL_SIZE + QUEUE_MAXSIZE + 1
Conns == 1..NumClients
Workers == 1..POOL_SIZE

\* ------------------------------------------------------- Character strings
\* The characters of the strings the model computes on.
Chars(s) ==
  CASE s = "" -> <<>>
    [] s = "/" -> <<"/">>
    [] s = "//" -> <<"/", "/">>
    [] s = ".." -> <<".", ".">>
    [] s = "/../" -> <<"/", ".", ".", "/">>
    [] s = "resources" -> <<"r","e","s","o","u","r","c","e","s">>
    [] s = "/srv" -> <<"/","s","r","v">>
    [] s = "/index.html" -> <<"/","i","n","d","e","x",".","h","t","m","l">>
    [] s = "/missing.html" -> <<"/","m","i","s","s","i","n","g",".","h","t","m","l">>
    [] s = "/file.txt" -> <<"/","f","i","l","e",".","t","x","t">>
    [] s = "/LOGO.PNG" -> <<"/","L","O","G","O",".","P","N","G">>
    [] s = "/app.exe" -> <<"/","a","p","p",".","e","x","e">>
    [] s = "/nofile.exe" -> <<"/","n","o","f","i","l","e",".","e","x","e">>
    [] s = "/uploads" -> <<"/","u","p","l","o","a","d","s">>
    [] s = "/upload" -> <<"/","u","p","l","o","a","d">>
    [] s = "/../index.html" -> <<"/",".",".","/","i","n","d","e","x",".","h","t","m","l">>
    [] s = "/a/../index.html" -> <<"/","a","/",".",".","/","i","n","d","e","x",".","h","t","m","l">>
    [] s = "/a/../missing.html" -> <<"/","a","/",".",".","/","m","i","s","s","i","n","g",".","h","t","m","l">>
    [] s = "//index.html" -> <<"/","/","i","n","d","e","x",".","h","t","m","l">>
    [] s = "/a..b.txt" -> <<"/","a",".",".","b",".","t","x","t">>
    [] s = ".html" -> <<".","h","t","m","l">>
    [] s = ".png" -> <<".","p","n","g">>
    [] s = ".jpg" -> <<".","j","p","g">>
    [] s = ".jpeg" -> <<".","j","p","e","g">>
    [] s = ".txt" -> <<".","t","x","t">>

\* sub in s (Python's substring test).
Contains(s, sub) ==
  \E i \in 1..(Len(s) - Len(sub) + 1) : SubSeq(s, i, i + Len(sub) - 1) = sub

\* s.startswith(p)
StartsWith(s, p) == Len(s) >= Len(p) /\ SubSeq(s, 1, Len(p)) = p

\* s.lstrip("/")
RECURSIVE LStripSlash(_)
LStripSlash(s) ==
  IF s # <<>> /\ Head(s) = "/" THEN LStripSlash(Tail(s)) ELSE s

\* s.split("/"): the segments between the slashes, empty ones included.
RECURSIVE SplitSlash(_, _)
SplitSlash(s, cur) ==
  IF s = <<>> THEN <<cur>>
  ELSE IF Head(s) = "/" THEN <<cur>> \o SplitSlash(Tail(s), <<>>)
  ELSE SplitSlash(Tail(s), Append(cur, Head(s)))

\* "/".join(segs) with a leading "/": an absolute path's characters.
RECURSIVE JoinAbs(_)
JoinAbs(segs) ==
  IF segs = <<>> THEN <<>> ELSE <<"/">> \o Head(segs) \o JoinAbs(Tail(segs))

\* str.lower() on one character.
LowerChar(c) ==
  CASE c = "L" -> "l" [] c = "O" -> "o" [] c = "G" -> "g"
    [] c = "P" -> "p" [] c = "N" -> "n" [] OTHER -> c

Lower(s) == [i \in 1..Len(s) |-> LowerChar(s[i])]

\* ------------------------------------------------------------ File system
\* The working directory of the server process, and the files under it.
\* index.html, file.txt, LOGO.PNG and app.exe are regular files of
\* resources/; resources/uploads is a directory (src/server.py:40-41).  No
\* path is a symbolic link, so realpath only normalises.
RESOURCES_DIR == "resources"

RegularFiles ==
  { Chars("/srv") \o Chars("/") \o Chars("resources") \o Chars(f) :
      f \in {"/index.html", "/file.txt", "/LOGO.PNG", "/app.exe"} }

Directories ==
  { Chars("/srv"),
    Chars("/srv") \o Chars("/") \o Chars("resources"),
    Chars("/srv") \o Chars("/") \o Chars("resources") \o Chars("/uploads") }

IsDir(p) == p \in Directories
Exists(p) == p \in RegularFiles \/ p \in Directories

\* os.path.realpath of a relative path (no symbolic links): the segments of
\* cwd + path with "" and "." dropped and ".." removing the segment before it.
RECURSIVE Normalise(_, _)
Normalise(segs, acc) ==
  IF segs = <<>> THEN acc
  ELSE LET s == Head(segs) IN
       IF s = <<>> \/ s = <<".">> THEN Normalise(Tail(segs), acc)
       ELSE IF s = <<".", ".">>
            THEN Normalise(Tail(segs),
                           IF acc = <<>> THEN acc ELSE SubSeq(acc, 1, Len(acc) - 1))
            ELSE Normalise(Tail(segs), Append(acc, s))

\* realpath(rel) for rel relative to the working directory.
RealPath(rel) ==
  LET abs == Normalise(SplitSlash(Chars("/srv") \o Chars("/") \o rel, <<>>), <<>>)
  IN IF abs = <<>> THEN Chars("/") ELSE JoinAbs(abs)

\* os.path.join(base, rel) for a relative rel.
PathJoin(base, rel) == base \o Chars("/") \o rel

NoPath == <<"<None>">>

\* safe_path(base, path)
safe_path(base, path) ==
  LET target == RealPath(PathJoin(base, LStripSlash(path)))
  IN IF ~StartsWith(target, RealPath(base)) THEN NoPath ELSE target

\* os.path.splitext(p)[1]: from the last dot of the last segment, unless that
\* segment has only dots before it.
SplitExt(p) ==
  LET segs == SplitSlash(p, <<>>)
      name == segs[Len(segs)]
      dots == {i \in 1..Len(name) : name[i] = "."}
      last == CHOOSE i \in dots : \A j \in dots : j <= i
  IN IF dots = {} THEN <<>>
     ELSE IF \A j \in 1..(last - 1) : name[j] = "." THEN <<>>
     ELSE SubSeq(name, last, Len(name))

\* os.path.basename(p): what follows the last slash.
Basename(p) ==
  LET segs == SplitSlash(p, <<>>)
  IN segs[Len(segs)]

\* The string of a sequence of characters.
RECURSIVE Str(_)
Str(chars) == IF chars = <<>> THEN "" ELSE chars[1] \o Str(Tail(chars))

\* ------------------------------------------------------------- Requests
\* What recv_headers returns for one request, as the code then reads it:
\*   line  the request line's whitespace-separated words (request_line.split();
\*         <<>> is the empty request line),
\*   hdrs  the lines after it: <<name, value>> for a line "name: value", a
\*         1-tuple for a line without ": ",
\*   body  the bytes that followed the blank line in the same read.
NoReq == [line |-> <<"<none>">>, hdrs |-> <<>>, body |-> <<>>]

\* parse_headers: the dictionary of the "name: value" lines, a later line
\* replacing an earlier one of the same name.
parse_headers(hdrs) ==
  LET idx == {i \in 1..Len(hdrs) : Len(hdrs[i]) = 2}
      names == {hdrs[i][1] : i \in idx}
      lastOf(n) == CHOOSE i \in idx : hdrs[i][1] = n /\ \A j \in idx : hdrs[j][1] = n => j <= i
  IN [n \in names |-> hdrs[lastOf(n)][2]]

\* headers.get(name, default)
HeaderGet(headers, name, default) ==
  IF name \in DOMAIN headers THEN headers[name] ELSE default

\* str.lower() on the header values the clients send.
LowerValue(v) == CASE v = "Close" -> "close" [] v = "CLOSE" -> "close" [] OTHER -> v

\* "application/json" in value
HasJsonType(v) == v \in {"application/json", "application/json; charset=utf-8"}

\* int(value) returns: of the header values the clients send and the port
\* numbers of the command line, the decimal numbers; on the others it raises
\* ValueError.
IsInt(v) == v \in {"0", "1", "2", "3", "-1", "8080", "9090"}

\* int(value), where it returns.
ParseInt(v) ==
  CASE v = "0" -> 0 [] v = "1" -> 1 [] v = "2" -> 2 [] v = "3" -> 3 [] v = "-1" -> -1
    [] v = "8080" -> 8080 [] v = "9090" -> 9090

\* json.loads succeeds: over the bytes "{", "}", "x" the only JSON text is {}.
IsJson(data) == data = <<"{", "}">>

\* ------------------------------------------------------------ Responses
NoResp == [status |-> 0, reason |-> "", headers |-> <<>>, body |-> <<>>]

\* build_response: the status line, the headers in insertion order, the body.
build_response(status, reason, headers, body) ==
  [status |-> status, reason |-> reason, headers |-> headers, body |-> body]

Now == "<now>"

\* The value of header name in a response, "<absent>" when it has none.
HeaderOf(resp, name) ==
  LET idx == {i \in 1..Len(resp.headers) : resp.headers[i][1] = name}
  IN IF idx = {} THEN "<absent>" ELSE resp.headers[CHOOSE i \in idx : TRUE][2]

\* The error responses of handle_connection, handle_get_head and handle_post.
ErrorResponse(status, reason, body) ==
  build_response(status, reason, <<<<"Date", Now>>, <<"Connection", "close">>>>, <<body>>)

Resp400 == ErrorResponse(400, "Bad Request", "400 Bad Request")
Resp403 == ErrorResponse(403, "Forbidden", "403 Forbidden")
Resp404 == ErrorResponse(404, "Not Found", "404 Not Found")
Resp405 == ErrorResponse(405, "Method Not Allowed", "405 Method Not Allowed")
Resp415 == ErrorResponse(415, "Unsupported Media Type", "415 Unsupported Media Type")
Resp400Json == ErrorResponse(400, "Bad Request", "400 Bad Request: Invalid JSON")

\* Faulty variant: the load-shedding response without its Retry-After header.
Resp503NoRetryAfter ==
  build_response(503, "Service Unavailable",
                 <<<<"Date", Now>>, <<"Connection", "close">>>>,
                 <<"503 Service Unavailable">>)

\* run_server's load-shedding response.
Resp503 ==
  build_response(503, "Service Unavailable",
                 <<<<"Date", Now>>, <<"Retry-After", ToString(RETRY_AFTER)>>,
                   <<"Connection", "close">>>>,
                 <<"503 Service Unavailable">>)

KeepAliveHeaders(keep_alive) ==
  << <<"Connection", IF keep_alive THEN "keep-alive" ELSE "close">>,
     <<"Keep-Alive", IF keep_alive THEN "timeout=30, max=100" ELSE "">> >>

\* ---------------------------------------------------------- GET and HEAD
AllowedExts == {Chars(".html"), Chars(".png"), Chars(".jpg"), Chars(".jpeg"), Chars(".txt")}

\* Faulty variant: the existence check comes before the extension check.
handle_get_head_ExistenceFirst(path0, keep_alive, method) ==
  LET path == IF path0 = Chars("/") THEN Chars("/index.html") ELSE path0
      filepath == safe_path(Chars(RESOURCES_DIR), path)
      ext == Lower(SplitExt(filepath))
  IN IF filepath = NoPath \/ IsDir(filepath) THEN Resp403
     ELSE IF ~Exists(filepath) THEN Resp404
     ELSE IF ext \notin AllowedExts THEN Resp415
     ELSE IF ext = Chars(".html")
          THEN build_response(200, "OK",
                 <<<<"Date", Now>>, <<"Content-Type", "text/html; charset=utf-8">>,
                   <<"Content-Length", "len(body)">>>> \o KeepAliveHeaders(keep_alive),
                 IF method = "GET" THEN <<"contents", filepath>> ELSE <<>>)
          ELSE build_response(200, "OK",
                 <<<<"Date", Now>>, <<"Content-Type", "application/octet-stream">>,
                   <<"Content-Disposition",
                     "attachment; filename=\"" \o Str(Basename(filepath)) \o "\"">>,
                   <<"Content-Length", "filesize">>>> \o KeepAliveHeaders(keep_alive),
                 <<"contents", filepath>>)

\* handle_get_head: the response it writes.
handle_get_head(path0, keep_alive, method) ==
  LET path == IF path0 = Chars("/") THEN Chars("/index.html") ELSE path0
      filepath == safe_path(Chars(RESOURCES_DIR), path)
      ext == Lower(SplitExt(filepath))
  IN IF filepath = NoPath \/ IsDir(filepath) THEN Resp403
     ELSE IF ext \notin AllowedExts THEN Resp415
     ELSE IF ~Exists(filepath) THEN Resp404
     ELSE IF ext = Chars(".html")
          THEN build_response(200, "OK",
                 <<<<"Date", Now>>, <<"Content-Type", "text/html; charset=utf-8">>,
                   <<"Content-Length", "len(body)">>>> \o KeepAliveHeaders(keep_alive),
                 IF method = "GET" THEN <<"contents", filepath>> ELSE <<>>)
          ELSE build_response(200, "OK",
                 <<<<"Date", Now>>, <<"Content-Type", "application/octet-stream">>,
                   <<"Content-Disposition",
                     "attachment; filename=\"" \o Str(Basename(filepath)) \o "\"">>,
                   <<"Content-Length", "filesize">>>> \o KeepAliveHeaders(keep_alive),
                 <<"contents", filepath>>)

\* ----------------------------------------------------------- POST /upload
\* handle_post up to its read loop: "resp" with the 415 it writes, "raise"
\* when int() rejects Content-Length, else "body" with the bytes it has and
\* the length it wants.
PostStart(path, headers, body) ==
  IF path # Chars("/upload") \/ ~HasJsonType(HeaderGet(headers, "Content-Type", ""))
  THEN [kind |-> "resp", resp |-> Resp415, data |-> <<>>, need |-> 0]
  ELSE LET value == HeaderGet(headers, "Content-Length", "0")
       IN IF ~IsInt(value)
          THEN [kind |-> "raise", resp |-> NoResp, data |-> <<>>, need |-> 0]
          ELSE [kind |-> "body", resp |-> NoResp, data |-> body, need |-> ParseInt(value)]

\* Faulty variant: the file is written before the body is parsed.
PostFinishWritesFirst(data, keep_alive, filename) ==
  IF ~IsJson(data)
  THEN [resp |-> Resp400Json, writes |-> TRUE]
  ELSE [resp |-> build_response(201, "Created",
                   <<<<"Date", Now>>, <<"Content-Type", "application/json">>,
                     <<"Content-Length", "len(resp_body)">>>> \o KeepAliveHeaders(keep_alive),
                   <<"filepath", filename>>),
        writes |-> TRUE]

\* handle_post after its read loop: the response, and whether a file is written.
PostFinish(data, keep_alive, filename) ==
  IF ~IsJson(data)
  THEN [resp |-> Resp400Json, writes |-> FALSE]
  ELSE [resp |-> build_response(201, "Created",
                   <<<<"Date", Now>>, <<"Content-Type", "application/json">>,
                     <<"Content-Length", "len(resp_body)">>>> \o KeepAliveHeaders(keep_alive),
                   <<"filepath", filename>>),
        writes |-> TRUE]

\* --------------------------------------------------- One loop iteration
\* The Host values the server accepts (src/server.py:148).
AcceptedHosts == {HOST \o ":" \o ToString(PORT), "localhost:" \o ToString(PORT)}

\* src/server.py:162
IsTraversal(path) ==
  Contains(path, Chars("..")) \/ StartsWith(path, Chars("/../")) \/ StartsWith(path, Chars("//"))

\* Faulty variant: the Connection header of the request is not looked at.
KeepAliveByVersionOnly(version, headers) == version = "HTTP/1.1"

\* src/server.py:160
KeepAlive(version, headers) ==
  version = "HTTP/1.1" /\ LowerValue(HeaderGet(headers, "Connection", "")) # "close"

\* src/server.py:154: the request line has too few words.
TooFewParts(parts) == Len(parts) < 3

\* handle_connection from parse_headers to the handler's return (lines
\* 141-174) for one request:
\*   kind     "resp": resp is written; "raise": an exception leaves the loop
\*            before anything is written; "body": handle_post reads on,
\*   brk      the loop breaks after the response (requests_handled is not
\*            incremented),
\*   handler  the handler called, "none" if the loop answered itself.
Route(req) ==
  LET headers == parse_headers(req.hdrs)
      parts == req.line
      out(kind, resp, brk, handler, ka, why) ==
        [kind |-> kind, resp |-> resp, brk |-> brk, handler |-> handler,
         keep_alive |-> ka, why |-> why, data |-> <<>>, need |-> 0]
  IN IF req.line = <<>> \/ "Host" \notin DOMAIN headers
     THEN out("resp", Resp400, TRUE, "none", FALSE, "none")
     ELSE IF headers["Host"] \notin AcceptedHosts
     THEN out("resp", Resp403, TRUE, "none", FALSE, "none")
     ELSE IF TooFewParts(parts)
     THEN out("resp", Resp400, TRUE, "none", FALSE, "none")
     ELSE IF Len(parts) # 3
     THEN out("raise", NoResp, FALSE, "none", FALSE, "unpack")
     ELSE LET method == parts[1]
              path == Chars(parts[2])
              keep_alive == KeepAlive(parts[3], headers)
          IN IF IsTraversal(path)
             THEN out("resp", Resp403, TRUE, "none", keep_alive, "none")
             ELSE IF method \in {"GET", "HEAD"}
             THEN out("resp", handle_get_head(path, keep_alive, method), FALSE,
                      "handle_get_head", keep_alive, "none")
             ELSE IF method = "POST"
             THEN LET p == PostStart(path, headers, req.body)
                  IN [kind |-> p.kind, resp |-> p.resp, brk |-> FALSE,
                      handler |-> "handle_post", keep_alive |-> keep_alive,
                      why |-> IF p.kind = "raise" THEN "int" ELSE "none",
                      data |-> p.data, need |-> p.need]
             ELSE out("resp", Resp405, TRUE, "none", keep_alive, "none")

\* ------------------------------------------------------------- Clients
\* The requests a client may send.
GoodHost == <<"Host", HOST \o ":" \o ToString(PORT)>>

Paths ==
  {"/", "/index.html", "/missing.html", "/file.txt", "/LOGO.PNG", "/app.exe",
   "/nofile.exe", "/uploads", "/upload", "/../index.html", "/a/../index.html",
   "/a/../missing.html", "//index.html", "/a..b.txt"}

\* Version and Connection header: keep-alive, closing by header, closing by version.
KeepAliveChoices ==
  { <<"HTTP/1.1", <<>>>>, <<"HTTP/1.1", <<<<"Connection", "close">>>>>>,
    <<"HTTP/1.1", <<<<"Connection", "Close">>>>>>, <<"HTTP/1.0", <<>>>> }

PlainRequests ==
  { [line |-> <<m, p, k[1]>>, hdrs |-> <<GoodHost>> \o k[2], body |-> <<>>] :
      m \in {"GET", "HEAD", "DELETE"}, p \in Paths, k \in KeepAliveChoices }

\* Request lines with a missing, an alias, a foreign or a lower-case Host
\* header, and request lines that do not have three words.
OddLines ==
  { <<>>, <<"GET">>, <<"GET", "/index.html">>,
    <<"GET", "/index.html", "HTTP/1.1", "x">>,
    <<"GET", "/index.html", "HTTP/1.1">>, <<"GET", "/../index.html", "HTTP/1.1">>,
    <<"DELETE", "/index.html", "HTTP/1.1">> }

OddHosts ==
  { <<>>, <<GoodHost>>, <<<<"Host", "localhost:" \o ToString(PORT)>>>>,
    <<<<"Host", "evil.example">>>>, <<<<"host", HOST \o ":" \o ToString(PORT)>>>>,
    <<<<"Host", "evil.example">>, <<"no colon">>, GoodHost>> }

OddRequests ==
  { [line |-> l, hdrs |-> h, body |-> <<>>] : l \in OddLines, h \in OddHosts }

PostRequests ==
  { [line |-> <<"POST", p, k[1]>>, hdrs |-> <<GoodHost>> \o k[2] \o t \o n, body |-> b] :
      p \in {"/upload", "/index.html", "/../index.html"},
      k \in { <<"HTTP/1.1", <<>>>>, <<"HTTP/1.1", <<<<"Connection", "close">>>>>> },
      t \in { <<>>, <<<<"Content-Type", "application/json">>>>,
              <<<<"Content-Type", "text/plain">>>> },
      n \in { <<>>, <<<<"Content-Length", "2">>>>, <<<<"Content-Length", "3">>>>,
              <<<<"Content-Length", "abc">>>> },
      b \in { <<>>, <<"{">>, <<"{", "}">>, <<"{", "x">>, <<"{", "}", "x">> } }

Requests == PlainRequests \cup OddRequests \cup PostRequests

\* What a client of the pool scenario may send: a request line of four
\* words, on which handle_connection raises.
PoolRequests ==
  { [line |-> <<"GET", "/index.html", "HTTP/1.1", "x">>,
     hdrs |-> <<GoodHost>>, body |-> <<>>] }

\* What the client of the liveness scenario may send: a keep-alive GET, and
\* uploads whose body comes with the headers in part or not at all.
LiveRequests ==
  { [line |-> <<"GET", "/index.html", "HTTP/1.1">>, hdrs |-> <<GoodHost>>, body |-> <<>>] }
  \cup
  { [line |-> <<"POST", "/upload", "HTTP/1.1">>,
     hdrs |-> <<GoodHost, <<"Content-Type", "application/json">>,
                <<"Content-Length", n>>>>,
     body |-> b] : n \in {"2", "3"}, b \in {<<>>, <<"{">>} }

\* What the client of the pipelining scenario may send: GETs without a body,
\* for a file that exists or not, keep-alive or asking to close.
PipeRequests ==
  { [line |-> <<"GET", p, "HTTP/1.1">>, hdrs |-> <<GoodHost>> \o k, body |-> <<>>] :
      p \in {"/index.html", "/missing.html"},
      k \in { <<>>, <<<<"Connection", "close">>>> } }

\* The Host values the client of the bind scenario may send.
HostRequests ==
  { [line |-> <<"GET", "/index.html", "HTTP/1.1">>,
     hdrs |-> <<<<"Host", h>>>> \o k, body |-> <<>>] :
      h \in {"127.0.0.1:8080", "localhost:8080", "127.0.0.1:9090", "localhost:9090",
              "0.0.0.0:8080", "evil.example"},
      k \in { <<>>, <<<<"Connection", "close">>>> } }

\* Each request with what handle_connection makes of it.
Routed(reqs) == { [req |-> q, out |-> Route(q)] : q \in reqs }
PoolRouted == Routed(PoolRequests)
ConnRouted == Routed(Requests)
LiveRouted == Routed(LiveRequests)
HostRouted == Routed(HostRequests)

\* The command lines the server may be started with (sys.argv[1:]).
Argvs == { <<>>, <<"127.0.0.1", "9090">>, <<"0.0.0.0">>, <<"0.0.0.0", "8080">> }

\* __main__, lines 313-315: host and port from the command line, the
\* configured HOST and PORT where it has none.
main(argv) ==
  [host |-> IF Len(argv) > 0 THEN argv[1] ELSE HOST,
   port |-> IF Len(argv) > 1 THEN ParseInt(argv[2]) ELSE PORT]

\* The request line as the client writes it: its words, a space between them.
RECURSIVE RequestLine(_)
RequestLine(parts) ==
  IF parts = <<>> THEN ""
  ELSE IF Len(parts) = 1 THEN parts[1]
  ELSE parts[1] \o " " \o RequestLine(Tail(parts))

\* recv_headers on a socket on which the requests of buffered (requests of
\* three words without a body) have arrived and wait unread: the first
\* sock.recv(1024) returns the bytes of all of them, and these hold a blank
\* line, so that the loop ends and all of them are raw.  In raw the first line
\* is the first request's; the lines after it are the first request's
\* headers, a blank line, and then the request line and the headers of each
\* later request.
RECURSIVE recv_headers(_)
recv_headers(buffered) ==
  IF Len(buffered) = 1 THEN buffered[1]
  ELSE LET rest == recv_headers(Tail(buffered))
       IN [line |-> buffered[1].line,
           hdrs |-> buffered[1].hdrs \o <<<<"">>, <<RequestLine(rest.line)>>>>
                    \o rest.hdrs,
           body |-> buffered[1].body]

\* The most requests the client of the pipelining scenario sends.
MaxSent == 3

\* The chunks a later sock.recv(4096) of handle_post may return.
BodyChunks == { <<"{">>, <<"}">>, <<"x">>, <<"}", "x">> }

\* upload_{timestamp}_{random_id()}.json: the names the clock and
\* random.choices may produce.
UploadNames == {"upload_t1_aaaa.json", "upload_t1_bbbb.json"}

\* ---------------------------------------------------------------- State
VARIABLES
  accpc,              \* run_server: "accept" (at accept()), "reject" (submitted
                      \* is False, the 503 not yet sent), "crashed"
  client_sock,        \* run_server's client_sock: the last accepted connection
  queue,              \* WorkerPool.queue
  sock,               \* per connection: its server-side socket
  phase,              \* per connection: where the server has it
  shed,               \* per connection: the response run_server wrote to it
  pc,                 \* per worker: "get", "recv", "body", "close", "dead"
  cur,                \* per worker: worker()'s client_sock (0: None or closed)
  requests_handled,   \* per worker: handle_connection's counter
  nresp,              \* per worker: responses written on the current connection
  clean,              \* per worker: all of them answered a GET with 200, keep-alive
  last,               \* per worker: the last request read and what became of it
  post,               \* per worker: handle_post's data and content_length
  uploads,            \* the files of resources/uploads
  listening,          \* run_server's host and port: the address bound
  sent,               \* per connection: the requests its client has sent
  unread              \* per connection: those of them not yet read by recv

vars == <<accpc, client_sock, queue, sock, phase, shed, pc, cur,
          requests_handled, nresp, clean, last, post, uploads, listening,
          sent, unread>>

accVars == <<accpc, client_sock, shed, listening>>
netVars == <<sent, unread>>
workerVars == <<pc, cur, requests_handled, nresp, clean, last, post, uploads>>

\* What handle_post did for the last request: the bytes it gave to json.loads
\* (NoData: it did not get that far), its content_length, the file it wrote.
NoData == <<"<none>">>
NoFile == "<none>"
NoUpload == [parsed |-> NoData, need |-> 0, wrote |-> NoFile]

NoLast ==
  [req |-> NoReq, resp |-> NoResp, handler |-> "none", raised |-> "none",
   upload |-> NoUpload]
NoPost == [data |-> <<>>, need |-> 0, eof |-> FALSE]

\* The state after `python server.py argv`, at the first accept().
Started(argv) ==
  /\ accpc = "accept"
  /\ client_sock = 0
  /\ queue = <<>>
  /\ sock = [c \in Conns |-> "none"]
  /\ phase = [c \in Conns |-> "new"]
  /\ shed = [c \in Conns |-> NoResp]
  /\ pc = [w \in Workers |-> "get"]
  /\ cur = [w \in Workers |-> 0]
  /\ requests_handled = [w \in Workers |-> 0]
  /\ nresp = [w \in Workers |-> 0]
  /\ clean = [w \in Workers |-> TRUE]
  /\ last = [w \in Workers |-> NoLast]
  /\ post = [w \in Workers |-> NoPost]
  /\ uploads = {}
  /\ listening = main(argv)
  /\ sent = [c \in Conns |-> <<>>]
  /\ unread = [c \in Conns |-> <<>>]

\* Started without arguments.
Init == Started(<<>>)

\* Started with any of the command lines of Argvs.
InitArgv == \E argv \in Argvs : Started(argv)

\* The process runs until the main thread leaves run_server; the workers are
\* daemon threads and end with it.
Running == accpc \in {"accept", "reject"}

\* -------------------------------------------------------------- Acceptor
\* Faulty variant: the queue takes one item more than its capacity.
QueueFullOffByOne(q) == Len(q) > QUEUE_MAXSIZE

\* queue.put_nowait raises queue.Full.
QueueFull(q) == Len(q) >= QUEUE_MAXSIZE

\* WorkerPool.submit on connection c: the queue after it and what it returns.
submit(q, c) ==
  IF QueueFull(q) THEN [queue |-> q, ret |-> FALSE]
  ELSE [queue |-> Append(q, c), ret |-> TRUE]

\* run_server, lines 298-300: accept the next of n clients and submit it.
AcceptSubmit(n) ==
  /\ accpc = "accept"
  /\ client_sock < n
  /\ LET c == client_sock + 1
         s == submit(queue, c)
     IN /\ client_sock' = c
        /\ sock' = [sock EXCEPT ![c] = "open"]
        /\ queue' = s.queue
        /\ phase' = [phase EXCEPT ![c] = IF s.ret THEN "queued" ELSE "rejected"]
        /\ accpc' = IF s.ret THEN "accept" ELSE "reject"
  /\ UNCHANGED <<shed, listening, workerVars, netVars>>

\* run_server, lines 301-308: sendall(503) and close; a sendall that raises
\* (the peer has reset) is not caught by `except KeyboardInterrupt` and ends
\* run_server with the socket not closed.
Reject503 ==
  /\ accpc = "reject"
  /\ \E sendOK \in BOOLEAN :
       IF sendOK
       THEN /\ shed' = [shed EXCEPT ![client_sock] = Resp503]
            /\ sock' = [sock EXCEPT ![client_sock] = "closed"]
            /\ accpc' = "accept"
       ELSE /\ accpc' = "crashed"
            /\ UNCHANGED <<shed, sock>>
  /\ UNCHANGED <<client_sock, queue, phase, listening, workerVars, netVars>>

\* --------------------------------------------------------------- Workers
\* Faulty variant: a worker takes the next connection while it still serves one.
CanDequeueWhileServing(w) == pc[w] \in {"get", "recv"}

\* WorkerPool.worker is at queue.get() (line 81).
CanDequeue(w) == pc[w] = "get"

\* Faulty variant: the exception is not caught and ends the worker thread.
AfterExceptionUncaught == "dead"

\* Where worker() goes after `except Exception` and `finally` (lines 86-89):
\* back to queue.get().
AfterException == "get"

\* Faulty variant: the loop admits one request more.
LoopContinuesInclusive(handled) == handled <= MAX_REQUESTS_PER_CONN

\* handle_connection's loop condition (line 134).
LoopContinues(handled) == handled < MAX_REQUESTS_PER_CONN

\* Faulty variant: the queue gives out the item put last.
queue_get_Newest(q) ==
  [item |-> q[Len(q)], queue |-> SubSeq(q, 1, Len(q) - 1)]

\* queue.get() on a queue that is not empty (line 81): queue.Queue gives out
\* the item put first; the item and the queue after it.
queue_get(q) ==
  [item |-> Head(q), queue |-> Tail(q)]

\* worker(), line 81, and handle_connection up to its first loop test.
Dequeue(w) ==
  /\ Running
  /\ CanDequeue(w)
  /\ queue # <<>>
  /\ LET g == queue_get(queue)
         c == g.item
     IN /\ queue' = g.queue
        /\ cur' = [cur EXCEPT ![w] = c]
        /\ phase' = [phase EXCEPT ![c] = "running"]
        /\ pc' = [pc EXCEPT ![w] = IF LoopContinues(0) THEN "recv" ELSE "close"]
  /\ requests_handled' = [requests_handled EXCEPT ![w] = 0]
  /\ nresp' = [nresp EXCEPT ![w] = 0]
  /\ clean' = [clean EXCEPT ![w] = TRUE]
  /\ last' = [last EXCEPT ![w] = NoLast]
  /\ post' = [post EXCEPT ![w] = NoPost]
  /\ UNCHANGED <<accVars, sock, uploads, netVars>>

\* The sock.sendall calls that write resp: one, but for a file sent as an
\* attachment two, the status line and headers (line 237) and the file's
\* bytes (lines 238-240; the files here have one chunk of 8192 bytes or less).
SendallCalls(resp) ==
  IF HeaderOf(resp, "Content-Disposition") # "<absent>" THEN 2 ELSE 1

\* What the client has of resp when only the first done calls completed.
Written(resp, done) ==
  IF done = 0 THEN NoResp
  ELSE IF done < SendallCalls(resp) THEN [resp EXCEPT !.body = <<>>]
  ELSE resp

\* An exception leaves handle_connection: sock.close() (line 184) is skipped,
\* worker() logs it and loops; its client_sock still refers to the socket.
\* handle_connection's locals are gone; last keeps what was raised and
\* written, the part of a response that was written before the exception.
RaiseWritten(w, req, handler, why, up, written) ==
  /\ pc' = [pc EXCEPT ![w] = AfterException]
  /\ phase' = [phase EXCEPT ![cur[w]] = "done"]
  /\ last' = [last EXCEPT ![w] =
                [req |-> req, resp |-> written, handler |-> handler, raised |-> why,
                 upload |-> up]]
  /\ post' = [post EXCEPT ![w] = NoPost]
  /\ clean' = [clean EXCEPT ![w] = FALSE]
  /\ requests_handled' = [requests_handled EXCEPT ![w] = 0]
  /\ nresp' = [nresp EXCEPT ![w] = 0]
  /\ UNCHANGED <<accVars, queue, sock, cur>>

\* An exception before anything of a response is written.
Raise(w, req, handler, why, up) == RaiseWritten(w, req, handler, why, up, NoResp)

\* The response is written and the loop goes on from line 176 (or breaks):
\* late says that more than CONN_TIMEOUT passed since the request was read.
Respond(w, req, resp, brk, handler, keep_alive, late, up) ==
  LET handled == IF brk THEN requests_handled[w] ELSE requests_handled[w] + 1
  IN /\ requests_handled' = [requests_handled EXCEPT ![w] = handled]
     /\ pc' = [pc EXCEPT ![w] =
                 IF brk \/ ~keep_alive \/ late \/ ~LoopContinues(handled)
                 THEN "close" ELSE "recv"]
     /\ nresp' = [nresp EXCEPT ![w] = @ + 1]
     /\ last' = [last EXCEPT ![w] =
                   [req |-> req, resp |-> resp, handler |-> handler, raised |-> "none",
                    upload |-> up]]
     /\ clean' = [clean EXCEPT ![w] =
                    @ /\ Len(req.line) = 3 /\ req.line[1] = "GET"
                      /\ resp.status = 200 /\ keep_alive]
     /\ post' = [post EXCEPT ![w] = NoPost]
     /\ UNCHANGED <<accVars, queue, sock, phase, cur>>

\* handle_post from json.loads on (lines 255-281), then the loop's tail.
PostDone(w, req, data, need, keep_alive, sendOK, late) ==
  \E filename \in UploadNames :
    LET f == PostFinish(data, keep_alive, filename)
        up == [parsed |-> data, need |-> need,
               wrote |-> IF f.writes THEN filename ELSE NoFile]
    IN /\ uploads' = IF f.writes THEN uploads \cup {filename} ELSE uploads
       /\ IF sendOK
          THEN Respond(w, req, f.resp, FALSE, "handle_post", keep_alive, late, up)
          ELSE Raise(w, req, "handle_post", "send", up)

\* One iteration of handle_connection's loop on a request of routed: lines
\* 135-182.  sendOK: no sendall raises; when one does, done of the response's
\* sendall calls have completed before it.
Iteration(w, routed) ==
  /\ Running
  /\ pc[w] = "recv"
  /\ \E x \in routed, sendOK \in BOOLEAN, late \in BOOLEAN :
       LET req == x.req
           r == x.out
       IN CASE r.kind = "raise" ->
                 Raise(w, req, r.handler, r.why, NoUpload) /\ UNCHANGED uploads
            [] r.kind = "resp" ->
                 /\ IF sendOK
                    THEN Respond(w, req, r.resp, r.brk, r.handler, r.keep_alive, late,
                                 NoUpload)
                    ELSE \E done \in 0..(SendallCalls(r.resp) - 1) :
                           RaiseWritten(w, req, r.handler, "send", NoUpload,
                                        Written(r.resp, done))
                 /\ UNCHANGED uploads
            [] r.kind = "body" ->
                 IF Len(r.data) < r.need
                 THEN /\ pc' = [pc EXCEPT ![w] = "body"]
                      /\ post' = [post EXCEPT ![w] =
                                    [data |-> r.data, need |-> r.need, eof |-> FALSE]]
                      /\ last' = [last EXCEPT ![w] =
                                    [req |-> req, resp |-> NoResp,
                                     handler |-> r.handler, raised |-> "none",
                                     upload |-> NoUpload]]
                      /\ clean' = [clean EXCEPT ![w] = FALSE]
                      /\ UNCHANGED <<accVars, queue, sock, phase, cur,
                                     requests_handled, nresp, uploads>>
                 ELSE PostDone(w, req, r.data, r.need, r.keep_alive, sendOK, late)

\* The client sends one request of routed while the worker waits in
\* recv_headers, which returns it.
Serve(w, routed) ==
  /\ Iteration(w, routed)
  /\ UNCHANGED netVars

\* A client sends one more request on its connection, whether the server has
\* read the earlier ones or not.
ClientSend(c, reqs) ==
  /\ Running
  /\ phase[c] \in {"queued", "running"}
  /\ Len(sent[c]) < MaxSent
  /\ \E q \in reqs :
       /\ sent' = [sent EXCEPT ![c] = Append(@, q)]
       /\ unread' = [unread EXCEPT ![c] = Append(@, q)]
  /\ UNCHANGED <<accVars, queue, sock, phase, workerVars>>

\* One iteration of the loop on what recv_headers reads from the socket when
\* requests wait on it.
ServeBuffered(w) ==
  /\ pc[w] = "recv"
  /\ unread[cur[w]] # <<>>
  /\ Iteration(w, Routed({recv_headers(unread[cur[w]])}))
  /\ unread' = [unread EXCEPT ![cur[w]] = <<>>]
  /\ UNCHANGED sent

\* recv_headers returns b"": the read timed out or the client closed (line 136).
RecvEmpty(w) ==
  /\ Running
  /\ pc[w] = "recv"
  /\ unread[cur[w]] = <<>>
  /\ pc' = [pc EXCEPT ![w] = "close"]
  /\ UNCHANGED <<accVars, queue, sock, phase, cur, requests_handled, nresp, clean,
                 last, post, uploads, netVars>>

\* sock.recv raises in recv_headers (a reset connection): only socket.timeout
\* is caught there.
RecvError(w) ==
  /\ Running
  /\ pc[w] = "recv"
  /\ Raise(w, NoReq, "none", "recv", NoUpload)
  /\ UNCHANGED <<uploads, netVars>>

\* handle_post's read loop (lines 252-253) gets a chunk.
BodyRecv(w) ==
  /\ Running
  /\ pc[w] = "body"
  /\ ~post[w].eof
  /\ \E chunk \in BodyChunks, sendOK \in BOOLEAN, late \in BOOLEAN :
       LET data == post[w].data \o chunk
       IN IF Len(data) < post[w].need
          THEN /\ post' = [post EXCEPT ![w].data = data]
               /\ UNCHANGED <<accVars, queue, sock, phase, pc, cur, requests_handled,
                              nresp, clean, last, uploads>>
          ELSE PostDone(w, last[w].req, data, post[w].need,
                        Route(last[w].req).keep_alive, sendOK, late)
  /\ UNCHANGED netVars

\* handle_post's sock.recv raises socket.timeout: nothing catches it there.
BodyTimeout(w) ==
  /\ Running
  /\ pc[w] = "body"
  /\ ~post[w].eof
  /\ Raise(w, last[w].req, "handle_post", "timeout", NoUpload)
  /\ UNCHANGED <<uploads, netVars>>

\* The client has closed: handle_post's sock.recv returns b"" from now on, and
\* the loop `while len(data) < content_length` goes round without an end.
BodyEOF(w) ==
  /\ Running
  /\ pc[w] = "body"
  /\ ~post[w].eof
  /\ post' = [post EXCEPT ![w].eof = TRUE]
  /\ UNCHANGED <<accVars, queue, sock, phase, pc, cur, requests_handled, nresp,
                 clean, last, uploads, netVars>>

\* handle_connection, lines 184-185, and worker() back at queue.get():
\* handle_connection's locals are gone.
Close(w) ==
  /\ Running
  /\ pc[w] = "close"
  /\ sock' = [sock EXCEPT ![cur[w]] = "closed"]
  /\ phase' = [phase EXCEPT ![cur[w]] = "done"]
  /\ pc' = [pc EXCEPT ![w] = "get"]
  /\ cur' = [cur EXCEPT ![w] = 0]
  /\ requests_handled' = [requests_handled EXCEPT ![w] = 0]
  /\ nresp' = [nresp EXCEPT ![w] = 0]
  /\ clean' = [clean EXCEPT ![w] = TRUE]
  /\ last' = [last EXCEPT ![w] = NoLast]
  /\ UNCHANGED <<accVars, queue, post, uploads, netVars>>

\* A socket that handle_connection left open is closed by the runtime once no
\* local variable refers to it any more (worker()'s and run_server's
\* client_sock have been rebound).  When that happens is the runtime's choice.
Finalize(c) ==
  /\ Running
  /\ sock[c] = "open"
  /\ phase[c] = "done"
  /\ client_sock # c
  /\ \A w \in Workers : cur[w] # c
  /\ sock' = [sock EXCEPT ![c] = "closed"]
  /\ UNCHANGED <<accVars, queue, phase, workerVars, netVars>>

\* ------------------------------------------------------- Specifications
\* The pool scenario: NumClients clients connect; each sends a request of
\* PoolRequests, goes silent, disconnects or resets.
Next ==
  \/ AcceptSubmit(NumClients)
  \/ Reject503
  \/ \E w \in Workers : Dequeue(w)
  \/ \E w \in Workers : Serve(w, PoolRouted)
  \/ \E w \in Workers : RecvEmpty(w)
  \/ \E w \in Workers : RecvError(w)
  \/ \E w \in Workers : Close(w)
  \/ \E c \in Conns : Finalize(c)

Spec == Init /\ [][Next]_vars

\* The connection scenario: one client connects and sends any requests of
\* Requests on its connection.
NextConn ==
  \/ AcceptSubmit(1)
  \/ \E w \in Workers : Dequeue(w)
  \/ \E w \in Workers : Serve(w, ConnRouted)
  \/ \E w \in Workers : RecvEmpty(w)
  \/ \E w \in Workers : RecvError(w)
  \/ \E w \in Workers : BodyRecv(w)
  \/ \E w \in Workers : BodyTimeout(w)
  \/ \E w \in Workers : BodyEOF(w)
  \/ \E w \in Workers : Close(w)

SpecConn == Init /\ [][NextConn]_vars

\* The liveness scenario: one client connects and sends requests of
\* LiveRouted, goes silent or disconnects at any point, also in the middle of
\* an upload's body.
WorkerStep(w) ==
  \/ Dequeue(w)
  \/ Serve(w, LiveRouted)
  \/ RecvEmpty(w)
  \/ RecvError(w)
  \/ BodyRecv(w)
  \/ BodyTimeout(w)
  \/ BodyEOF(w)
  \/ Close(w)

NextLive == AcceptSubmit(1) \/ \E w \in Workers : WorkerStep(w)

\* Fair scheduling of the worker threads: a worker at queue.get() with a
\* connection queued takes it, and a worker about to close closes.  The
\* socket's timeout (line 130): a sock.recv that is waiting, in recv_headers
\* or in handle_post, does not wait for ever; if nothing else ends it, it
\* times out.
Fairness ==
  \A w \in Workers :
    /\ WF_vars(Dequeue(w))
    /\ WF_vars(RecvEmpty(w))
    /\ WF_vars(BodyTimeout(w))
    /\ WF_vars(Close(w))

SpecLive == Init /\ [][NextLive]_vars /\ Fairness

\* The pipelining scenario: one client connects and sends up to MaxSent
\* requests of PipeRequests, each at any time after the one before.
NextPipe ==
  \/ AcceptSubmit(1)
  \/ \E w \in Workers : Dequeue(w)
  \/ \E c \in Conns : ClientSend(c, PipeRequests)
  \/ \E w \in Workers : ServeBuffered(w)
  \/ \E w \in Workers : RecvEmpty(w)
  \/ \E w \in Workers : RecvError(w)
  \/ \E w \in Workers : Close(w)

SpecPipe == Init /\ [][NextPipe]_vars

\* The bind scenario: the server is started with a command line of Argvs; one
\* client connects and sends requests of HostRequests.
NextArgv ==
  \/ AcceptSubmit(1)
  \/ \E w \in Workers : Dequeue(w)
  \/ \E w \in Workers : Serve(w, HostRouted)
  \/ \E w \in Workers : RecvEmpty(w)
  \/ \E w \in Workers : RecvError(w)
  \/ \E w \in Workers : Close(w)

SpecArgv == InitArgv /\ [][NextArgv]_vars

\* ---------------------------------------------------------------- Claims
RunningConns == {c \in Conns : phase[c] = "running"}
QueuedConns == {c \in Conns : phase[c] = "queued"}
RejectedConns == {c \in Conns : phase[c] = "rejected"}

\* Worker w is inside handle_connection.
InHandler(w) == pc[w] \in {"recv", "body", "close"}

\* Worker w will read another request from its connection.
ReadsOn(w) == pc[w] \in {"recv", "body"}

\* All W+Q+1 clients have been accepted, every connection that was not
\* rejected is still open and not being closed, and nothing more can move
\* without a client acting: the queue is empty or no worker is free.
BurstSettled ==
  /\ accpc = "accept"
  /\ client_sock = NumClients
  /\ \A c \in Conns : phase[c] \in {"queued", "running", "rejected"}
  /\ \A w \in Workers : pc[w] \in {"get", "recv"}
  /\ (queue = <<>> \/ \A w \in Workers : pc[w] # "get")

Is503WithRetryAfter(resp) ==
  /\ resp.status = 503
  /\ HeaderOf(resp, "Retry-After") = ToString(RETRY_AFTER)

\* C1 as stated: once the burst of W+Q+1 connections has settled, exactly W
\* run, exactly Q wait in the queue and the one other was rejected with a 503
\* that carries Retry-After.
C1_BurstExactlyWQ1 ==
  BurstSettled =>
    /\ Cardinality(RunningConns) = POOL_SIZE
    /\ Cardinality(QueuedConns) = QUEUE_MAXSIZE
    /\ Cardinality(RejectedConns) = 1
    /\ \A c \in RejectedConns : Is503WithRetryAfter(shed[c])

\* C1 amended: once the burst has settled, at most W connections run and at
\* most Q wait; between 1 and W+1 were rejected, each with a 503 that carries
\* Retry-After and with its socket closed; the workers run as many of the
\* others as there are workers.
C1_BurstAtMostWQ ==
  BurstSettled =>
    /\ Cardinality(RunningConns) <= POOL_SIZE
    /\ Cardinality(QueuedConns) <= QUEUE_MAXSIZE
    /\ Cardinality(RejectedConns) \in 1..(POOL_SIZE + 1)
    /\ Cardinality(RunningConns) + Cardinality(QueuedConns)
         + Cardinality(RejectedConns) = NumClients
    /\ (Cardinality(QueuedConns) > 0 => Cardinality(RunningConns) = POOL_SIZE)
    /\ \A c \in RejectedConns : Is503WithRetryAfter(shed[c]) /\ sock[c] = "closed"

\* The burst settles the way C1 expects: W running, Q queued.
C1_Witness ==
  /\ BurstSettled
  /\ Cardinality(RunningConns) = POOL_SIZE
  /\ Cardinality(QueuedConns) = QUEUE_MAXSIZE

\* C2: the queue never holds more than QUEUE_MAXSIZE connections; submit can
\* always be taken when a client waits (it does not block); with room it
\* appends the connection and returns True, at capacity it leaves the queue
\* as it is and returns False.
C2_SubmitBounded ==
  /\ [](Len(queue) <= QUEUE_MAXSIZE)
  /\ []((accpc = "accept" /\ client_sock < NumClients) => ENABLED AcceptSubmit(NumClients))
  /\ [][client_sock' # client_sock =>
          IF Len(queue) < QUEUE_MAXSIZE
          THEN queue' = Append(queue, client_sock') /\ accpc' = "accept"
          ELSE queue' = queue /\ accpc' = "reject"]_vars

\* submit has just returned False on a full queue.
C2_Witness ==
  /\ accpc = "reject"
  /\ Len(queue) = QUEUE_MAXSIZE
  /\ client_sock \notin {queue[i] : i \in 1..Len(queue)}

\* C3: at most W connections are inside handle_connection, each of them with
\* exactly one worker, and a worker inside handle_connection has a connection
\* that is still running: it took no other before finishing this one.
C3_AtMostWRunning ==
  /\ Cardinality(RunningConns) <= POOL_SIZE
  /\ \A c \in RunningConns :
       Cardinality({w \in Workers : InHandler(w) /\ cur[w] = c}) = 1
  /\ \A w \in Workers : InHandler(w) => phase[cur[w]] = "running"

\* All W workers are inside handle_connection while a connection waits.
C3_Witness ==
  /\ Cardinality(RunningConns) = POOL_SIZE
  /\ \A w \in Workers : InHandler(w)
  /\ queue # <<>>

\* C4 as stated: every rejected connection the acceptor is no longer about to
\* answer has been sent the 503 with Retry-After, has its socket closed, and
\* is neither in the queue nor with a worker.
C4_RejectedAnsweredAndClosed ==
  \A c \in RejectedConns :
    ~(accpc = "reject" /\ client_sock = c) =>
      /\ Is503WithRetryAfter(shed[c])
      /\ sock[c] = "closed"
      /\ c \notin {queue[i] : i \in 1..Len(queue)}
      /\ \A w \in Workers : cur[w] # c

ProtocolErrors == {400, 403, 404, 405, 415}

\* C5 as stated: after an error response (400, 403, 404, 405, 415) the
\* connection loop reads no further request from the connection.
C5_ErrorResponseIsLast ==
  \A w \in Workers : last[w].resp.status \in ProtocolErrors => ~ReadsOn(w)

\* C6: requests_handled never exceeds MAX_REQUESTS_PER_CONN, no connection gets
\* more than MAX_REQUESTS_PER_CONN responses, and after that many responses the
\* loop is closing the connection and reads no further request; a connection
\* whose requests were all valid keep-alive GETs gets exactly that many.
C6_ClosedAfterMaxRequests ==
  \A w \in Workers :
    /\ requests_handled[w] <= MAX_REQUESTS_PER_CONN
    /\ nresp[w] <= MAX_REQUESTS_PER_CONN
    /\ (nresp[w] = MAX_REQUESTS_PER_CONN => ~ReadsOn(w))
    /\ (requests_handled[w] = MAX_REQUESTS_PER_CONN =>
          nresp[w] = MAX_REQUESTS_PER_CONN /\ pc[w] = "close")

\* A connection has sent MAX_REQUESTS_PER_CONN valid keep-alive GETs, each
\* answered 200 with Connection: keep-alive, and is being closed.
C6_Witness ==
  \E w \in Workers :
    /\ clean[w]
    /\ requests_handled[w] = MAX_REQUESTS_PER_CONN
    /\ nresp[w] = MAX_REQUESTS_PER_CONN
    /\ HeaderOf(last[w].resp, "Connection") = "keep-alive"
    /\ pc[w] = "close"

\* C7: no worker thread ends: after an exception in handle_connection the
\* worker is back at queue.get(), and W workers are alive.
C7_WorkersSurvive ==
  /\ \A w \in Workers : last[w].raised # "none" => pc[w] = "get"
  /\ Cardinality({w \in Workers : pc[w] # "dead"}) = POOL_SIZE

\* Every worker has had an exception in handle_connection, one of them an
\* unpacking error and one a socket error, and waits for the next connection.
C7_Witness ==
  /\ \A w \in Workers : last[w].raised # "none" /\ pc[w] = "get"
  /\ \E w \in Workers : last[w].raised = "unpack"
  /\ \E w \in Workers : last[w].raised \in {"send", "recv"}

\* C8 as stated: a connection that a worker has finished with has its socket
\* closed.
C8_FinishedIsClosed ==
  \A c \in Conns : phase[c] = "done" => sock[c] = "closed"

\* The request has no Host header (under that exact name).
LacksHost(req) == \A i \in 1..Len(req.hdrs) : req.hdrs[i][1] # "Host"

\* C9 as stated: a request without a Host header, or whose request line does
\* not have exactly 3 words, is answered 400 with Connection: close and the
\* connection is closed (unless writing the response itself failed).
C9_MalformedGets400 ==
  \A w \in Workers :
    LET q == last[w].req
    IN (q # NoReq /\ last[w].raised # "send" /\ (LacksHost(q) \/ Len(q.line) # 3)) =>
         /\ last[w].resp.status = 400
         /\ HeaderOf(last[w].resp, "Connection") = "close"
         /\ ~ReadsOn(w)

\* The paths C10 is about.
HasTraversalPattern(p) ==
  \/ \E i \in 1..(Len(p) - 1) : p[i] = "." /\ p[i + 1] = "."
  \/ (Len(p) >= 4 /\ p[1] = "/" /\ p[2] = "." /\ p[3] = "." /\ p[4] = "/")
  \/ (Len(p) >= 2 /\ p[1] = "/" /\ p[2] = "/")

\* A request of three words with an accepted Host and a path C10 is about.
TraversalRequest(q) ==
  /\ q # NoReq
  /\ Len(q.line) = 3
  /\ ~LacksHost(q)
  /\ parse_headers(q.hdrs)["Host"] \in
       {HOST \o ":" \o ToString(PORT), "localhost:" \o ToString(PORT)}
  /\ HasTraversalPattern(Chars(q.line[2]))

\* C10 as stated: a request, of any method, whose path contains "..", starts
\* with "/../" or starts with "//" is answered 403 with Connection: close, no
\* handler is called for it, and the loop goes on to close the connection.
C10_TraversalGets403AndCloses ==
  \A w \in Workers :
    TraversalRequest(last[w].req) =>
      /\ last[w].handler = "none"
      /\ last[w].resp.status = 403
      /\ HeaderOf(last[w].resp, "Connection") = "close"
      /\ pc[w] = "close"

\* What holds for such a request: no handler is called; nothing but the write
\* of the 403 raises; and when the 403 is written the loop closes the
\* connection.
TraversalGuard ==
  \A w \in Workers :
    TraversalRequest(last[w].req) =>
      /\ last[w].handler = "none"
      /\ last[w].raised \in {"none", "send"}
      /\ (last[w].raised = "none" =>
            /\ last[w].resp = Resp403
            /\ pc[w] = "close")

\* Worker w has written the response of handle_get_head to a GET or HEAD.
ServedGetHead(w) ==
  /\ last[w].handler = "handle_get_head"
  /\ last[w].raised = "none"
  /\ last[w].resp # NoResp

\* The path names something with an extension that is not allow-listed.
HasForeignExt(p) ==
  LET ext == Lower(SplitExt(Chars(p)))
  IN ext # <<>> /\ ext \notin {Chars(".html"), Chars(".png"), Chars(".jpg"),
                              Chars(".jpeg"), Chars(".txt")}

\* The file the path of a GET or HEAD names under resources/.
FileOf(p) == RealPath(PathJoin(Chars(RESOURCES_DIR), LStripSlash(Chars(p))))

\* C11: the response of handle_get_head to a GET or HEAD whose path has an
\* extension outside .html, .png, .jpg, .jpeg, .txt is the 415, the same
\* response whether the file exists or not.
C11_ForeignExtensionGets415 ==
  \A w \in Workers :
    (ServedGetHead(w) /\ HasForeignExt(last[w].req.line[2])) =>
      last[w].resp = Resp415

\* A GET or HEAD of /app.exe, which exists, was answered 415.
C11_Witness ==
  \E w \in Workers :
    /\ ServedGetHead(w)
    /\ last[w].req.line[2] = "/app.exe"
    /\ FileOf("/app.exe") \in RegularFiles
    /\ last[w].resp.status = 415

\* C12 as stated: the response to a HEAD that is answered 200 has no body.
C12_HeadHasNoBody ==
  \A w \in Workers :
    (ServedGetHead(w) /\ last[w].req.line[1] = "HEAD" /\ last[w].resp.status = 200) =>
      last[w].resp.body = <<>>

\* The body bytes are a JSON text.
ValidJsonText(data) == data = <<"{", "}">>

\* Worker w's handle_post has handed a body to json.loads.
Parsed(w) == last[w].upload.parsed # NoData

\* C13: a body that is not valid JSON makes handle_post write no file and
\* answer 400; a file is written only for a body that parsed, it is then in
\* the uploads directory and the response is the 201 that names it; and the
\* uploads directory changes only by such a write.
C13_InvalidJsonWritesNothing ==
  /\ [](\A w \in Workers :
          LET u == last[w].upload
          IN /\ (Parsed(w) /\ ~ValidJsonText(u.parsed)) =>
                  /\ u.wrote = NoFile
                  /\ (last[w].raised = "none" => last[w].resp.status = 400)
             /\ u.wrote # NoFile =>
                  /\ ValidJsonText(u.parsed)
                  /\ u.wrote \in uploads
                  /\ (last[w].raised = "none" =>
                        /\ last[w].resp.status = 201
                        /\ last[w].resp.body = <<"filepath", u.wrote>>))
  /\ [][uploads' # uploads =>
          \E w \in Workers :
            /\ last'[w] # last[w]
            /\ ValidJsonText(last'[w].upload.parsed)
            /\ uploads' = uploads \cup {last'[w].upload.wrote}]_vars

\* With a file uploaded earlier on the connection, a body that is not JSON
\* was answered 400 and nothing was written for it.
C13_Witness ==
  \E w \in Workers :
    /\ Parsed(w)
    /\ ~ValidJsonText(last[w].upload.parsed)
    /\ last[w].resp.status = 400
    /\ last[w].upload.wrote = NoFile
    /\ uploads # {}

\* C18 as stated: for a POST /upload that declares a Content-Length of n >= 0,
\* the bytes handle_post hands to json.loads are n bytes, whatever the client
\* sent after them.
C18_ParsesExactlyContentLength ==
  \A w \in Workers :
    (/\ Parsed(w)
     /\ "Content-Length" \in DOMAIN parse_headers(last[w].req.hdrs)
     /\ last[w].upload.need >= 0) =>
      Len(last[w].upload.parsed) = last[w].upload.need

\* The request asks for the connection to be closed: its (last) Connection
\* header is "close" in any letter case.
AsksClose(req) ==
  \E i \in 1..Len(req.hdrs) :
    /\ Len(req.hdrs[i]) = 2
    /\ req.hdrs[i][1] = "Connection"
    /\ req.hdrs[i][2] \in {"close", "Close", "CLOSE"}
    /\ \A j \in (i + 1)..Len(req.hdrs) :
         ~(Len(req.hdrs[j]) = 2 /\ req.hdrs[j][1] = "Connection")

\* Keep-alive as the request negotiates it.
Negotiated(req) == req.line[3] = "HTTP/1.1" /\ ~AsksClose(req)

\* Worker w has written the response of handle_get_head or handle_post.
ServedByHandler(w) ==
  /\ last[w].handler \in {"handle_get_head", "handle_post"}
  /\ last[w].raised = "none"
  /\ last[w].resp # NoResp

\* C17 as stated: every response of handle_get_head and handle_post has the
\* Connection header of the negotiated keep-alive: "keep-alive" for HTTP/1.1
\* without Connection: close, "close" otherwise.
C17_ConnectionHeaderMatches ==
  \A w \in Workers :
    ServedByHandler(w) =>
      HeaderOf(last[w].resp, "Connection") =
        IF Negotiated(last[w].req) THEN "keep-alive" ELSE "close"

\* C17 amended: the 200 and 201 responses of the handlers have the Connection
\* header of the negotiated keep-alive; their error responses have
\* Connection: close whatever was negotiated; and the loop reads a further
\* request only after a request that negotiated keep-alive.
C17_SuccessHeaderMatches ==
  \A w \in Workers :
    /\ ServedByHandler(w) =>
         HeaderOf(last[w].resp, "Connection") =
           IF last[w].resp.status \in {200, 201} /\ Negotiated(last[w].req)
           THEN "keep-alive" ELSE "close"
    /\ (pc[w] = "recv" /\ last[w].req # NoReq) => Negotiated(last[w].req)

\* A GET over HTTP/1.1 with "Connection: Close" was answered 200 with
\* Connection: close.
C17_Witness ==
  \E w \in Workers :
    /\ ServedByHandler(w)
    /\ last[w].req.line[3] = "HTTP/1.1"
    /\ <<"Connection", "Close">> \in {last[w].req.hdrs[i] : i \in 1..Len(last[w].req.hdrs)}
    /\ last[w].resp.status = 200
    /\ HeaderOf(last[w].resp, "Connection") = "close"

\* The connections in the queue, and those a worker has taken from it.
InQueue == {queue[i] : i \in 1..Len(queue)}
Dequeued == {c \in Conns : phase[c] \in {"running", "done"}}

\* C19: a connection is on one path only.  One that was rejected or sent the
\* 503 is neither in the queue nor with a worker nor run; one in the queue is
\* there once and has not been taken yet; no two workers run the same
\* connection; and the queue is first-in first-out: connections being
\* numbered in the order of their submission, the queue is in rising order and
\* everything already taken from it was submitted before everything in it.
C19_OnePathFifo ==
  /\ \A c \in Conns :
       (phase[c] = "rejected" \/ shed[c] # NoResp) =>
         /\ phase[c] = "rejected"
         /\ c \notin InQueue
         /\ \A w \in Workers : cur[w] # c
  /\ \A c \in InQueue : phase[c] = "queued"
  /\ \A i, j \in 1..Len(queue) : i < j => queue[i] < queue[j]
  /\ \A c \in InQueue : \A d \in Dequeued : d < c
  /\ \A c \in Conns : phase[c] = "queued" => c \in InQueue
  /\ \A w1, w2 \in Workers :
       (w1 # w2 /\ InHandler(w1) /\ InHandler(w2)) => cur[w1] # cur[w2]

\* The queue was full, of two connections or more, when one more connection
\* was rejected with the 503; since then a worker that had closed its first
\* connection has taken the oldest of the queue, the next one still waits, and
\* every worker runs a connection of its own.
C19_Witness ==
  /\ \E c \in Conns : phase[c] = "done" /\ sock[c] = "closed"
  /\ \E c \in Conns :
       /\ phase[c] = "rejected" /\ shed[c] = Resp503
       /\ queue # <<>>
       /\ Len(queue) + 1 = QUEUE_MAXSIZE
       /\ c > queue[Len(queue)]
       /\ \E w \in Workers : InHandler(w) /\ cur[w] + 1 = Head(queue)
  /\ \A w \in Workers : InHandler(w)
  /\ Cardinality({cur[w] : w \in Workers}) = POOL_SIZE

\* C20 as stated: the accept loop is never ended by a load-shedding outcome,
\* and every rejected connection it has dealt with has its socket closed.
C20_AcceptLoopSurvives ==
  /\ accpc \in {"accept", "reject"}
  /\ \A c \in RejectedConns :
       ~(accpc = "reject" /\ client_sock = c) => sock[c] = "closed"

\* C16 as stated, its last part: under fair scheduling a worker that has
\* dequeued a connection comes back to queue.get(), whatever the client does.
C16_WorkerComesBack ==
  \A w \in Workers : (pc[w] # "get") ~> (pc[w] = "get")

\* The response handle_connection writes to a request that it reads by itself.
ResponseTo(req) == Route(req).resp

\* C14 as stated: the i-th response written on a connection is the response to
\* the i-th request its client sent, also when the client sends a request
\* before the response to the one before has been written.
C14_ResponsesInReceiptOrder ==
  \A w \in Workers :
    (cur[w] # 0 /\ nresp[w] >= 1 /\ last[w].raised = "none" /\ last[w].resp # NoResp)
      => /\ nresp[w] <= Len(sent[cur[w]])
         /\ last[w].resp = ResponseTo(sent[cur[w]][nresp[w]])

\* The Host values of the address the server was started with.
BindHosts ==
  { listening.host \o ":" \o ToString(listening.port),
    "localhost:" \o ToString(listening.port) }

\* C15 as stated: a request passes Host validation exactly when its Host
\* header is "H:P" or "localhost:P" for the bind host H and port P the server
\* was started with; for every other Host value the response is 403.  (The
\* clients of the bind scenario ask for /index.html, to which no other check
\* answers 403.)
C15_HostValidatedAgainstBind ==
  \A w \in Workers :
    LET headers == parse_headers(last[w].req.hdrs)
    IN (last[w].req # NoReq /\ last[w].raised = "none" /\ last[w].resp # NoResp
        /\ "Host" \in DOMAIN headers)
         => (last[w].resp.status # 403 <=> headers["Host"] \in BindHosts)

====
